---- MODULE Spec2Model ----
(***************************************************************************)
(* A model of sysfs/gpio.py: the Pin class over the kernel's sysfs GPIO    *)
(* files, the registry that allocates pins, and the TwistedLoop that waits *)
(* on epoll in a background thread and hands the batches to the reactor.   *)
(*                                                                         *)
(* Python values are written as strings ("None", "True", "False", "0",     *)
(* "1", "str", "cb"): "cb" is a callable, "str" a value that is neither    *)
(* None nor a bool nor callable, "0" and "1" the integers.  File contents  *)
(* are sequences of characters.                                            *)
(***************************************************************************)
EXTENDS Integers, Sequences, FiniteSets, TLC

\* ------------------------------------------------------------- bounds
\* batches that may wait on the reactor at one time
MaxQueue == 2

\* ---------------------------------------------------------- the board
\* the pin numbers the host permits (externally supplied)
ValidRange == {1, 2, 3}
\* the numbers asked of the registry: the valid ones and one that is not
Numbers == ValidRange \cup {4}
\* the event loops of the process
Loops == {1, 2}
\* the loop whose background thread is followed, and to which the registry
\* gives its pins
Threads == {1}
\* file descriptors: each pin holds at most one open value file
FDs == 1 .. Cardinality(ValidRange)

NoFile == 0
NoLoop == 0
NoToken == 0

\* what the kernel offers: line 1 has a direction and an edge attribute,
\* line 2 a direction attribute only, line 3 neither (its direction is fixed)
WithDirection == {1, 2}
WithEdge == {1}

VARIABLES
    exported,     \* [pin -> BOOLEAN]   /sys/class/gpio/gpioN exists
    direction,    \* [pin -> "in"|"out"] the direction attribute
    edge,         \* [pin -> mode]      the edge attribute
    active_low,   \* [pin -> "0"|"1"]   the active_low attribute
    level,        \* [pin -> 0|1]       the physical level of the line
    allocated,    \* [pin -> BOOLEAN]   the registry's pins
    valueFile,    \* [pin -> fd]        Pin.__valueFile (NoFile: None)
    monitoring,   \* [pin -> record]    Pin.__monitoring (NoMon: None)
    eventLoop,    \* [pin -> loop]      Pin.eventLoop (NoLoop: None)
    table,        \* [loop -> set of [fd, pin]] the loop's registrations
    running,      \* [loop -> BOOLEAN]  TwistedLoop._running
    tpc,          \* [loop -> position of the background thread]
    events,       \* [loop -> the thread's local variable events]
    queue,        \* calls handed to the reactor by callFromThread
    reactor,      \* "running" | "stopped"
    stopCalled,   \* reactor.stop() was called by a background thread
    lastWait,     \* [loop -> how the thread's last wait call ended]
    failed,       \* [loop -> a wait failed other than by EINTR]
    last,         \* the last call made on the reactor thread
    trace         \* what that call did, in order

vars == << exported, direction, edge, active_low, level, allocated,
           valueFile, monitoring, eventLoop, table, running, tpc, events,
           queue, reactor, stopCalled, lastWait, failed, last, trace >>

pinVars == << exported, direction, edge, active_low, level, allocated,
              valueFile, monitoring, eventLoop, table >>

threadVars == << running, tpc, events, lastWait, failed, stopCalled >>

\* ------------------------------------------------------ Python values
PyVals == {"None", "True", "False", "0", "1", "str"}
CbVals == {"None", "cb", "str"}

\* x == True and x == False as Python evaluates them: 1 == True, 0 == False
PyEqTrue(x) == x \in {"True", "1"}
PyEqFalse(x) == x \in {"False", "0"}
\* isinstance(x, bool)
IsBool(x) == x \in {"True", "False"}
\* callable(x)
Callable(x) == x = "cb"
\* a Python bool, written
PyBool(b) == IF b THEN "True" ELSE "False"

\* s[:-1]
DropLast(s) == SubSeq(s, 1, Len(s) - 1)

NoMon == [token |-> NoToken, eventLoop |-> NoLoop,
          cbRising |-> "None", cbFalling |-> "None"]

\* ------------------------------------------------------- the world
\* The reactor thread's calls are state transformers over a record of
\* everything they read and write; exc is the exception being raised
\* ("none": none) and ret the value returned.
World ==
    [ exported |-> exported, direction |-> direction,
      edge |-> edge, active_low |-> active_low, level |-> level,
      allocated |-> allocated, valueFile |-> valueFile,
      monitoring |-> monitoring, eventLoop |-> eventLoop, table |-> table,
      trace |-> << >>, exc |-> "none", ret |-> "None" ]

Ok(w) == w.exc = "none"
Raise(w, e) == [w EXCEPT !.exc = e]
Return(w, r) == [w EXCEPT !.ret = r]

Registered(w, p) == \E l \in Loops : \E e \in w.table[l] : e.pin = p

\* one step of a call, recorded with the pin's registration, its handle and
\* the level of its line as they are at that instant
Emit(w, ev, p, arg) ==
    [w EXCEPT !.trace = Append(@, [ev |-> ev, pin |-> p, arg |-> arg,
                                   reg |-> Registered(w, p),
                                   open |-> w.valueFile[p] # NoFile,
                                   level |-> w.level[p]])]

\* ------------------------------------------------- the kernel's files
HasDirection(w, p) == w.exported[p] /\ p \in WithDirection
HasEdge(w, p) == w.exported[p] /\ p \in WithEdge

Xor(a, b) == (a + b) % 2
Bit(c) == IF c = "0" THEN 0 ELSE 1
Chr(b) == IF b = 0 THEN "0" ELSE "1"

\* a write of the pin number to the export file
KExport(w, p) ==
    IF w.exported[p] THEN Raise(w, "OSError")
    ELSE [w EXCEPT !.exported[p] = TRUE, !.direction[p] = "in",
                   !.edge[p] = "none", !.active_low[p] = "0"]

\* a write of the pin number to the unexport file
KUnexport(w, p) ==
    IF ~w.exported[p] THEN Raise(w, "OSError")
    ELSE [w EXCEPT !.exported[p] = FALSE, !.direction[p] = "in",
                   !.edge[p] = "none", !.active_low[p] = "0",
                   !.level[p] = 0]

\* a write to the direction attribute: "out" and "low" drive the line low,
\* "high" drives it high
KWriteDirection(w, p, d) ==
    CASE d = "in"   -> [w EXCEPT !.direction[p] = "in"]
      [] d = "high" -> [w EXCEPT !.direction[p] = "out", !.level[p] = 1]
      [] OTHER      -> [w EXCEPT !.direction[p] = "out", !.level[p] = 0]

\* a read of the value attribute: the level as active_low shows it
KReadValue(w, p) == << Chr(Xor(w.level[p], Bit(w.active_low[p]))), "\n" >>

\* a write to the value attribute: refused on an input
KWriteValue(w, p, c) ==
    IF w.direction[p] = "in" THEN Raise(w, "OSError")
    ELSE [w EXCEPT !.level[p] = Xor(Bit(c), Bit(w.active_low[p]))]

\* ------------------------------------------------------ the event loop
\* eventLoop.add(file, handler): the descriptor joins the loop's wait set
\* (epoll.register, EPOLLPRI | EPOLLET); the token is the descriptor
add(w, l, fd, p) ==
    Return([Emit(w, "add", p, ToString(l)) EXCEPT
               !.table[l] = @ \cup {[fd |-> fd, pin |-> p]}], fd)

\* eventLoop.remove(token): the descriptor leaves the loop's wait set
remove(w, l, token, p) ==
    [Emit(w, "remove", p, ToString(l)) EXCEPT
        !.table[l] = {e \in @ : e.fd # token}]

\* -------------------------------------------------------------- Pin
\* Pin.__init__: no value file, no monitoring
PinInit(w, p, l) ==
    [w EXCEPT !.valueFile[p] = NoFile, !.monitoring[p] = NoMon,
              !.eventLoop[p] = l]

\* the lowest descriptor no open value file holds
FreeFd(w) ==
    CHOOSE fd \in FDs :
        /\ \A q \in ValidRange : w.valueFile[q] # fd
        /\ \A g \in FDs : (\A q \in ValidRange : w.valueFile[q] # g) => fd <= g

assureValueFile(w, p) ==
    IF w.valueFile[p] # NoFile THEN w
    ELSE IF ~w.exported[p] THEN Raise(w, "FileNotFoundError")
    ELSE LET fd == FreeFd(w)
         IN  [Emit(w, "open", p, "") EXCEPT !.valueFile[p] = fd]

\* Pin.__reconfigureMonitoring sending the removal to the loop the pin's
\* eventLoop attribute names now
reconfigureMonitoringCurrentLoop(w, p, cbRising, cbFalling) ==
    LET w1 == IF w.monitoring[p] = NoMon THEN w
              ELSE IF w.eventLoop[p] = NoLoop
              THEN Raise(w, "AttributeError")
              ELSE [remove(w, w.eventLoop[p], w.monitoring[p].token, p)
                       EXCEPT !.monitoring[p] = NoMon]
    IN  IF ~Ok(w1) THEN w1
        ELSE IF cbRising = "None" /\ cbFalling = "None" THEN w1
        ELSE IF w1.eventLoop[p] = NoLoop THEN Raise(w1, "NoEventLoop")
        ELSE LET w2 == assureValueFile(w1, p)
             IN  IF ~Ok(w2) THEN w2
                 ELSE LET w3 == add(w2, w2.eventLoop[p], w2.valueFile[p], p)
                      IN  [w3 EXCEPT !.monitoring[p] =
                              [token |-> w3.ret,
                               eventLoop |-> w3.eventLoop[p],
                               cbRising |-> cbRising,
                               cbFalling |-> cbFalling],
                              !.ret = "None"]

\* Pin.__reconfigureMonitoring
reconfigureMonitoring(w, p, cbRising, cbFalling) ==
    LET w1 == IF w.monitoring[p] # NoMon
              THEN [remove(w, w.monitoring[p].eventLoop,
                           w.monitoring[p].token, p)
                       EXCEPT !.monitoring[p] = NoMon]
              ELSE w
    IN  IF cbRising = "None" /\ cbFalling = "None" THEN w1
        ELSE IF w1.eventLoop[p] = NoLoop THEN Raise(w1, "NoEventLoop")
        ELSE LET w2 == assureValueFile(w1, p)
             IN  IF ~Ok(w2) THEN w2
                 ELSE LET w3 == add(w2, w2.eventLoop[p], w2.valueFile[p], p)
                      IN  [w3 EXCEPT !.monitoring[p] =
                              [token |-> w3.ret,
                               eventLoop |-> w3.eventLoop[p],
                               cbRising |-> cbRising,
                               cbFalling |-> cbFalling],
                              !.ret = "None"]

\* Pin.__closeValueFile closing the handle first and unregistering after
closeValueFileEarly(w, p) ==
    IF w.valueFile[p] = NoFile THEN w
    ELSE LET w1 == [Emit(w, "close", p, "") EXCEPT !.valueFile[p] = NoFile]
         IN  reconfigureMonitoring(w1, p, "None", "None")

\* Pin.__closeValueFile
closeValueFile(w, p) ==
    IF w.valueFile[p] = NoFile THEN w
    ELSE LET w1 == reconfigureMonitoring(w, p, "None", "None")
         IN  IF ~Ok(w1) THEN w1
             ELSE [Emit(w1, "close", p, "") EXCEPT !.valueFile[p] = NoFile]

\* Pin.export
export(w, p) == KExport(Emit(w, "write_export", p, ""), p)

\* Pin.unexport writing the unexport file before it closes the handle
unexportWriteFirst(w, p) ==
    LET w1 == KUnexport(Emit(w, "write_unexport", p, ""), p)
    IN  IF ~Ok(w1) THEN w1 ELSE closeValueFile(w1, p)

\* Pin.unexport
unexport(w, p) ==
    LET w1 == closeValueFile(w, p)
    IN  IF ~Ok(w1) THEN w1
        ELSE KUnexport(Emit(w1, "write_unexport", p, ""), p)

\* Pin.exportedOrFail
exportedOrFail(w, p) ==
    IF ~w.exported[p] THEN Raise(w, "NotExported") ELSE w

\* Pin.exported (setter)
setExported(w, p, shouldBeExported) ==
    IF (w.exported[p] /\ PyEqTrue(shouldBeExported))
       \/ (~w.exported[p] /\ PyEqFalse(shouldBeExported)) THEN w
    ELSE IF PyEqTrue(shouldBeExported) THEN export(w, p)
    ELSE IF PyEqFalse(shouldBeExported) THEN unexport(w, p)
    ELSE Raise(w, "TypeError")

\* Pin._direction (setter)
setDirection(w, p, d) ==
    IF HasDirection(w, p)
    THEN KWriteDirection(Emit(w, "write_direction", p, d), p, d)
    ELSE LET w1 == exportedOrFail(w, p)
         IN  IF ~Ok(w1) THEN w1 ELSE Raise(w1, "FixedDirection")

\* Pin.inverted (setter)
setInverted(w, p, inverted) ==
    IF ~w.exported[p] THEN Raise(w, "FileNotFoundError")
    ELSE IF PyEqTrue(inverted)
         THEN [Emit(w, "write_active_low", p, "1") EXCEPT !.active_low[p] = "1"]
    ELSE IF PyEqFalse(inverted)
         THEN [Emit(w, "write_active_low", p, "0") EXCEPT !.active_low[p] = "0"]
    ELSE Raise(w, "TypeError")

\* Pin.inverted (getter)
getInverted(w, p) ==
    IF ~w.exported[p] THEN Raise(w, "FileNotFoundError")
    ELSE Return(w, PyBool(DropLast(<< w.active_low[p], "\n" >>) # << "0" >>))

\* Pin.value (getter)
getValue(w, p) ==
    LET w1 == assureValueFile(w, p)
    IN  IF ~Ok(w1) THEN w1
        ELSE LET v == PyBool(DropLast(KReadValue(w1, p)) # << "0" >>)
             IN  Return(Emit(w1, "read_value", p, v), v)

\* Pin.value (setter)
setValue(w, p, value) ==
    LET w1 == assureValueFile(w, p)
    IN  IF ~Ok(w1) THEN w1
        ELSE IF PyEqTrue(value)
             THEN KWriteValue(Emit(w1, "write_value", p, "1"), p, "1")
        ELSE IF PyEqFalse(value)
             THEN KWriteValue(Emit(w1, "write_value", p, "0"), p, "0")
        ELSE Raise(w1, "TypeError")

\* Pin.configureAsOutput unregistering after its writes instead of before
configureAsOutputLate(w, p, initValue, inverted) ==
    LET w2 == IF IsBool(inverted) THEN setInverted(w, p, inverted)
              ELSE IF inverted # "None" THEN Raise(w, "TypeError")
              ELSE w
        w3 == IF ~Ok(w2) THEN w2
              ELSE IF initValue = "None" THEN setDirection(w2, p, "out")
              ELSE IF PyEqTrue(initValue) THEN setDirection(w2, p, "high")
              ELSE IF PyEqFalse(initValue) THEN setDirection(w2, p, "low")
              ELSE Raise(w2, "TypeError")
    IN  IF ~Ok(w3) THEN w3 ELSE reconfigureMonitoring(w3, p, "None", "None")

\* Pin.configureAsOutput writing the direction before the inversion
configureAsOutputDirectionFirst(w, p, initValue, inverted) ==
    LET w1 == reconfigureMonitoring(w, p, "None", "None")
        w2 == IF ~Ok(w1) THEN w1
              ELSE IF initValue = "None" THEN setDirection(w1, p, "out")
              ELSE IF PyEqTrue(initValue) THEN setDirection(w1, p, "high")
              ELSE IF PyEqFalse(initValue) THEN setDirection(w1, p, "low")
              ELSE Raise(w1, "TypeError")
    IN  IF ~Ok(w2) THEN w2
        ELSE IF IsBool(inverted) THEN setInverted(w2, p, inverted)
        ELSE IF inverted # "None" THEN Raise(w2, "TypeError")
        ELSE w2

\* Pin.configureAsOutput
configureAsOutput(w, p, initValue, inverted) ==
    LET w1 == reconfigureMonitoring(w, p, "None", "None")
        w2 == IF ~Ok(w1) THEN w1
              ELSE IF IsBool(inverted) THEN setInverted(w1, p, inverted)
              ELSE IF inverted # "None" THEN Raise(w1, "TypeError")
              ELSE w1
    IN  IF ~Ok(w2) THEN w2
        ELSE IF initValue = "None" THEN setDirection(w2, p, "out")
        ELSE IF PyEqTrue(initValue) THEN setDirection(w2, p, "high")
        ELSE IF PyEqFalse(initValue) THEN setDirection(w2, p, "low")
        ELSE Raise(w2, "TypeError")

\* the edge mode configureAsInput computes, with rising and falling swapped
EdgeForSwapped(cbRising, cbFalling) ==
    IF cbRising = "None" /\ cbFalling = "None" THEN "none"
    ELSE IF Callable(cbRising) /\ cbFalling = "None" THEN "falling"
    ELSE IF cbRising = "None" /\ Callable(cbFalling) THEN "rising"
    ELSE IF Callable(cbRising) /\ Callable(cbFalling) THEN "both"
    ELSE "TypeError"

\* the edge mode configureAsInput computes from its callbacks ("TypeError":
\* it raises)
EdgeFor(cbRising, cbFalling) ==
    IF cbRising = "None" /\ cbFalling = "None" THEN "none"
    ELSE IF Callable(cbRising) /\ cbFalling = "None" THEN "rising"
    ELSE IF cbRising = "None" /\ Callable(cbFalling) THEN "falling"
    ELSE IF Callable(cbRising) /\ Callable(cbFalling) THEN "both"
    ELSE "TypeError"

\* Pin.configureAsInput removing the registration before it looks at its
\* callbacks
configureAsInputChecksLate(w, p, cbRising, cbFalling) ==
    LET e == EdgeFor(cbRising, cbFalling)
        w1 == reconfigureMonitoring(w, p, "None", "None")
    IN  IF ~Ok(w1) THEN w1
        ELSE IF e = "TypeError" THEN Raise(w1, "TypeError")
        ELSE IF HasEdge(w1, p)
        THEN Return([Emit(w1, "write_edge", p, e) EXCEPT !.edge[p] = e],
                    "int")
        ELSE IF e # "none"
        THEN LET w2 == exportedOrFail(w1, p)
             IN  IF ~Ok(w2) THEN w2 ELSE Raise(w2, "NoCallbacks")
        ELSE LET w3 == setDirection(w1, p, "in")
             IN  IF ~Ok(w3) THEN w3
                 ELSE reconfigureMonitoring(w3, p, cbRising, cbFalling)

\* Pin.configureAsInput
configureAsInput(w, p, cbRising, cbFalling) ==
    LET e == EdgeFor(cbRising, cbFalling)
    IN  IF e = "TypeError" THEN Raise(w, "TypeError")
        ELSE
        LET w1 == reconfigureMonitoring(w, p, "None", "None")
        IN  IF ~Ok(w1) THEN w1
            ELSE IF HasEdge(w1, p)
            \* return f.write(edge)
            THEN Return([Emit(w1, "write_edge", p, e) EXCEPT !.edge[p] = e],
                        "int")
            \* except FileNotFoundError
            ELSE IF e # "none"
            THEN LET w2 == exportedOrFail(w1, p)
                 IN  IF ~Ok(w2) THEN w2 ELSE Raise(w2, "NoCallbacks")
            ELSE LET w3 == setDirection(w1, p, "in")
                 IN  IF ~Ok(w3) THEN w3
                     ELSE reconfigureMonitoring(w3, p, cbRising, cbFalling)

\* Pin._interruptHandler without the test of __monitoring: the lookup of
\* a callback in None raises
interruptHandlerUnguarded(w, p) ==
    LET w0 == Emit(w, "handler", p, "")
        w1 == getValue(w0, p)
    IN  IF ~Ok(w1) THEN w1
        ELSE IF w1.monitoring[p] = NoMon THEN Raise(w1, "TypeError")
        ELSE IF w1.ret = "True" /\ Callable(w1.monitoring[p].cbRising)
        THEN Return(Emit(w1, "cbRising", p, "True"), "None")
        ELSE IF w1.ret = "False" /\ Callable(w1.monitoring[p].cbFalling)
        THEN Return(Emit(w1, "cbFalling", p, "False"), "None")
        ELSE Return(w1, "None")

\* Pin._interruptHandler calling whichever callback is set, whatever the
\* value read
interruptHandlerAnyEdge(w, p) ==
    LET w0 == Emit(w, "handler", p, "")
    IN  IF w0.monitoring[p] = NoMon THEN w0
        ELSE
        LET w1 == getValue(w0, p)
        IN  IF ~Ok(w1) THEN w1
            ELSE IF Callable(w1.monitoring[p].cbRising)
            THEN Return(Emit(w1, "cbRising", p, "True"), "None")
            ELSE IF Callable(w1.monitoring[p].cbFalling)
            THEN Return(Emit(w1, "cbFalling", p, "False"), "None")
            ELSE Return(w1, "None")

\* Pin._interruptHandler
interruptHandler(w, p) ==
    LET w0 == Emit(w, "handler", p, "")
    IN  IF w0.monitoring[p] = NoMon THEN w0
        ELSE
        LET w1 == getValue(w0, p)
        IN  IF ~Ok(w1) THEN w1
            ELSE IF w1.ret = "True" /\ Callable(w1.monitoring[p].cbRising)
            THEN Return(Emit(w1, "cbRising", p, "True"), "None")
            ELSE IF w1.ret = "False" /\ Callable(w1.monitoring[p].cbFalling)
            THEN Return(Emit(w1, "cbFalling", p, "False"), "None")
            ELSE Return(w1, "None")

\* ------------------------------------------------------- TwistedLoop
\* the bits of an event mask the dispatch looks at
Wanted == {"EPOLLPRI", "EPOLLET"}

\* the event masks a wait reports for a value file
Masks == {{"EPOLLPRI", "EPOLLERR"}, {"EPOLLERR"}}

\* the pins of the registry whose value file is the descriptor fd
PinsOf(w, fd) == {p \in ValidRange : w.allocated[p] /\ w.valueFile[p] = fd}

RECURSIVE handlers(_, _, _)
\* for pin in values: if pin.fileno() == fd: the pin's handler runs
handlers(w, fd, ps) ==
    IF ps = {} \/ ~Ok(w) THEN w
    ELSE LET p == CHOOSE q \in ps : \A r \in ps : q <= r
         IN  handlers(interruptHandler(w, p), fd, ps \ {p})

RECURSIVE poll_queue_event(_, _)
\* TwistedLoop._poll_queue_event
poll_queue_event(w, evs) ==
    IF evs = << >> \/ ~Ok(w) THEN w
    ELSE LET ev == Head(evs)
         IN  IF ev.mask \cap Wanted = {}
             THEN poll_queue_event(w, Tail(evs))
             ELSE poll_queue_event(handlers(w, ev.fd, PinsOf(w, ev.fd)),
                                   Tail(evs))

\* ------------------------------------------------------ the registry
\* allocate without the test that the number is free
allocateAgain(w, n, l) ==
    IF n \notin ValidRange THEN Raise(w, "InvalidPinNumber")
    ELSE LET w1 == IF w.exported[n] THEN w ELSE export(w, n)
         IN  IF ~Ok(w1) THEN w1
             ELSE [PinInit(w1, n, l) EXCEPT !.allocated[n] = TRUE]

\* allocate: the number is valid and free; the line is exported if it is
\* not yet, and a Pin made for it
allocate(w, n, l) ==
    IF n \notin ValidRange THEN Raise(w, "InvalidPinNumber")
    ELSE IF w.allocated[n] THEN Raise(w, "PinAlreadyAllocated")
    ELSE LET w1 == IF w.exported[n] THEN w ELSE export(w, n)
         IN  IF ~Ok(w1) THEN w1
             ELSE [PinInit(w1, n, l) EXCEPT !.allocated[n] = TRUE]

\* deallocate: the pin is unregistered, closed, unexported and forgotten
deallocate(w, n) ==
    IF n \notin ValidRange \/ ~w.allocated[n]
    THEN Raise(w, "PinNotAllocated")
    ELSE LET w1 == IF w.exported[n] THEN unexport(w, n)
                   ELSE closeValueFile(w, n)
         IN  IF ~Ok(w1) THEN w1 ELSE [w1 EXCEPT !.allocated[n] = FALSE]

RECURSIVE deallocateAll(_, _)
deallocateAll(w, ps) ==
    IF ps = {} \/ ~Ok(w) THEN w
    ELSE LET p == CHOOSE q \in ps : \A r \in ps : q <= r
         IN  deallocateAll(IF w.allocated[p] THEN deallocate(w, p) ELSE w,
                           ps \ {p})

\* stop: the trigger the loop sets before the reactor's shutdown
stop(w) == deallocateAll(w, ValidRange)

\* ------------------------------------------------------------ states
\* the thread's events before its first assignment
Unbound == << [fd |-> NoFile, mask |-> {"unbound"}] >>

RECURSIVE BatchesOver(_)
\* what a wait may return for the descriptors S: one event at most for
\* each, in the order of the descriptors
BatchesOver(S) ==
    IF S = {} THEN {<< >>}
    ELSE LET f == CHOOSE x \in S : \A y \in S : x <= y
             rest == BatchesOver(S \ {f})
         IN  rest \cup {<< [fd |-> f, mask |-> m] >> \o r :
                            m \in Masks, r \in rest}

Batches(l) == BatchesOver({e.fd : e \in table[l]})

Call(op, p, a, b) ==
    [op |-> op, pin |-> p, a |-> a, b |-> b, exc |-> "none",
     ret |-> "None", batch |-> << >>]

Init ==
    /\ exported = [p \in ValidRange |-> FALSE]
    /\ direction = [p \in ValidRange |-> "in"]
    /\ edge = [p \in ValidRange |-> "none"]
    /\ active_low = [p \in ValidRange |-> "0"]
    /\ level = [p \in ValidRange |-> 0]
    /\ allocated = [p \in ValidRange |-> FALSE]
    /\ valueFile = [p \in ValidRange |-> NoFile]
    /\ monitoring = [p \in ValidRange |-> NoMon]
    /\ eventLoop = [p \in ValidRange |-> NoLoop]
    /\ table = [l \in Loops |-> {}]
    /\ running = [l \in Loops |-> TRUE]
    /\ tpc = [l \in Loops |-> "while"]
    /\ events = [l \in Loops |-> Unbound]
    /\ queue = << >>
    /\ reactor = "running"
    /\ stopCalled = FALSE
    /\ lastWait = [l \in Loops |-> "none"]
    /\ failed = [l \in Loops |-> FALSE]
    /\ last = Call("init", 0, "None", "None")
    /\ trace = << >>

\* a call on the reactor thread that ends in the world w
Done(c, w) ==
    /\ exported' = w.exported
    /\ direction' = w.direction
    /\ edge' = w.edge
    /\ active_low' = w.active_low
    /\ level' = w.level
    /\ allocated' = w.allocated
    /\ valueFile' = w.valueFile
    /\ monitoring' = w.monitoring
    /\ eventLoop' = w.eventLoop
    /\ table' = w.table
    /\ last' = [c EXCEPT !.exc = w.exc,
                         !.ret = IF Ok(w) THEN w.ret ELSE "None"]
    /\ trace' = w.trace

\* ------------------------------------------- calls on the reactor thread
Allocate(n) ==
    /\ reactor = "running"
    /\ \E l \in Threads : Done(Call("allocate", n, "None", "None"),
                             allocate(World, n, l))
    /\ UNCHANGED << threadVars, queue, reactor >>

Deallocate(n) ==
    /\ reactor = "running"
    /\ Done(Call("deallocate", n, "None", "None"), deallocate(World, n))
    /\ UNCHANGED << threadVars, queue, reactor >>

Export(p) ==
    /\ reactor = "running" /\ allocated[p]
    /\ Done(Call("export", p, "None", "None"), export(World, p))
    /\ UNCHANGED << threadVars, queue, reactor >>

Unexport(p) ==
    /\ reactor = "running" /\ allocated[p]
    /\ Done(Call("unexport", p, "None", "None"), unexport(World, p))
    /\ UNCHANGED << threadVars, queue, reactor >>

SetExported(p, x) ==
    /\ reactor = "running" /\ allocated[p]
    /\ Done(Call("exported=", p, x, "None"), setExported(World, p, x))
    /\ UNCHANGED << threadVars, queue, reactor >>

ConfigureAsOutput(p, initValue, inverted) ==
    /\ reactor = "running" /\ allocated[p]
    /\ Done(Call("configureAsOutput", p, initValue, inverted),
            configureAsOutput(World, p, initValue, inverted))
    /\ UNCHANGED << threadVars, queue, reactor >>

ConfigureAsInput(p, cbRising, cbFalling) ==
    /\ reactor = "running" /\ allocated[p]
    /\ Done(Call("configureAsInput", p, cbRising, cbFalling),
            configureAsInput(World, p, cbRising, cbFalling))
    /\ UNCHANGED << threadVars, queue, reactor >>

GetValue(p) ==
    /\ reactor = "running" /\ allocated[p]
    /\ Done(Call("value", p, "None", "None"), getValue(World, p))
    /\ UNCHANGED << threadVars, queue, reactor >>

SetValue(p, x) ==
    /\ reactor = "running" /\ allocated[p]
    /\ Done(Call("value=", p, x, "None"), setValue(World, p, x))
    /\ UNCHANGED << threadVars, queue, reactor >>

\* pin.value = x, and pin.value read right after it
WriteThenRead(p, x) ==
    /\ reactor = "running" /\ allocated[p]
    /\ LET w1 == setValue(World, p, x)
       IN  Done(Call("value=;value", p, x, "None"),
                IF Ok(w1) THEN getValue(w1, p) ELSE w1)
    /\ UNCHANGED << threadVars, queue, reactor >>

GetInverted(p) ==
    /\ reactor = "running" /\ allocated[p]
    /\ Done(Call("inverted", p, "None", "None"), getInverted(World, p))
    /\ UNCHANGED << threadVars, queue, reactor >>

SetInverted(p, x) ==
    /\ reactor = "running" /\ allocated[p]
    /\ Done(Call("inverted=", p, x, "None"), setInverted(World, p, x))
    /\ UNCHANGED << threadVars, queue, reactor >>

\* pin.eventLoop = l
SetEventLoop(p, l) ==
    /\ reactor = "running" /\ allocated[p]
    /\ eventLoop[p] # l
    /\ Done(Call("eventLoop=", p, "None", "None"),
            [World EXCEPT !.eventLoop[p] = l])
    /\ UNCHANGED << threadVars, queue, reactor >>

\* __reconfigureMonitoring(cbRising, cbFalling) called with a callback
Monitor(p, cbRising, cbFalling) ==
    /\ reactor = "running" /\ allocated[p]
    /\ cbRising # "None" \/ cbFalling # "None"
    /\ Done(Call("reconfigureMonitoring", p, cbRising, cbFalling),
            reconfigureMonitoring(World, p, cbRising, cbFalling))
    /\ UNCHANGED << threadVars, queue, reactor >>

\* the line of an input changes its level
LineChange(p) ==
    /\ exported[p] /\ direction[p] = "in"
    /\ level' = [level EXCEPT ![p] = 1 - @]
    /\ UNCHANGED << exported, direction, edge, active_low, allocated,
                    valueFile, monitoring, eventLoop, table, threadVars,
                    queue, reactor, last, trace >>

\* the reactor running the call handed over last instead of the oldest
DispatchNewest ==
    /\ reactor = "running" /\ queue # << >>
    /\ Done([Call("poll_queue_event", 0, "None", "None")
                EXCEPT !.batch = queue[Len(queue)].events],
            poll_queue_event(World, queue[Len(queue)].events))
    /\ queue' = SubSeq(queue, 1, Len(queue) - 1)
    /\ UNCHANGED << threadVars, reactor >>

\* the reactor runs the call at the head of its queue
Dispatch ==
    /\ reactor = "running" /\ queue # << >>
    /\ Done([Call("poll_queue_event", 0, "None", "None")
                EXCEPT !.batch = Head(queue).events],
            poll_queue_event(World, Head(queue).events))
    /\ queue' = Tail(queue)
    /\ UNCHANGED << threadVars, reactor >>

\* the reactor shuts down: stop runs, and nothing runs after it
Shutdown ==
    /\ reactor = "running"
    /\ Done(Call("stop", 0, "None", "None"), stop(World))
    /\ running' = [l \in Loops |-> FALSE]
    /\ reactor' = "stopped"
    /\ UNCHANGED << tpc, events, lastWait, failed, stopCalled, queue >>

\* -------------------------------------- the background thread of a loop
\* TwistedLoop._poll_queue_loop: the wait returns (a batch, or none on a
\* timeout)
PollReturns(l) ==
    /\ tpc[l] = "while" /\ running[l]
    /\ \E b \in Batches(l) :
        /\ events' = [events EXCEPT ![l] = b]
        /\ lastWait' = [lastWait EXCEPT
                           ![l] = IF b # << >> THEN "batch" ELSE "timeout"]
    /\ tpc' = [tpc EXCEPT ![l] = "if"]
    /\ UNCHANGED << pinVars, running, failed, stopCalled, queue,
                    reactor, last, trace >>

\* the wait raises IOError with errno EINTR
PollInterrupted(l) ==
    /\ tpc[l] = "while" /\ running[l]
    /\ lastWait' = [lastWait EXCEPT ![l] = "EINTR"]
    /\ tpc' = [tpc EXCEPT ![l] = "if"]
    /\ UNCHANGED << pinVars, running, events, failed, stopCalled,
                    queue, reactor, last, trace >>

\* the wait raises IOError with another errno: logged, reactor.stop()
PollFailed(l) ==
    /\ tpc[l] = "while" /\ running[l]
    /\ lastWait' = [lastWait EXCEPT ![l] = "error"]
    /\ failed' = [failed EXCEPT ![l] = TRUE]
    /\ stopCalled' = TRUE
    /\ tpc' = [tpc EXCEPT ![l] = "if"]
    /\ UNCHANGED << pinVars, running, events, queue, reactor, last,
                    trace >>

\* if len(events) > 0: reactor.callFromThread(self._poll_queue_event, events)
Forward(l) ==
    /\ tpc[l] = "if"
    /\ IF events[l] = Unbound
       THEN /\ tpc' = [tpc EXCEPT ![l] = "crashed"]
            /\ UNCHANGED queue
       ELSE IF Len(events[l]) > 0
       THEN /\ Len(queue) < MaxQueue \/ ~running[l]
            /\ queue' = Append(queue, [loop |-> l, events |-> events[l]])
            /\ tpc' = [tpc EXCEPT ![l] = "while"]
       ELSE /\ tpc' = [tpc EXCEPT ![l] = "while"]
            /\ UNCHANGED queue
    /\ UNCHANGED << pinVars, running, events, lastWait, failed,
                    stopCalled, reactor, last, trace >>

\* the loop going on to wait although the flag is down (while True)
LoopIgnoresFlag(l) ==
    /\ tpc[l] = "while" /\ ~running[l]
    /\ events' = [events EXCEPT ![l] = << >>]
    /\ lastWait' = [lastWait EXCEPT ![l] = "timeout"]
    /\ tpc' = [tpc EXCEPT ![l] = "if"]
    /\ UNCHANGED << pinVars, running, failed, stopCalled, queue,
                    reactor, last, trace >>

\* while self._running: the flag is down and the loop ends
LoopExit(l) ==
    /\ tpc[l] = "while" /\ ~running[l]
    /\ tpc' = [tpc EXCEPT ![l] = "exited"]
    /\ UNCHANGED << pinVars, running, events, lastWait, failed,
                    stopCalled, queue, reactor, last, trace >>

\* ------------------------------------------------------ specifications
InitVals == {"None", "True", "False", "str"}
InvVals == {"None", "True", "str"}
BoolVals == {"True", "False", "1", "None"}

AllocateOne(n) ==
    /\ \A q \in ValidRange \ {n} : ~allocated[q]
    /\ Allocate(n)

PinCall ==
    \/ \E n \in Numbers : AllocateOne(n)
    \/ \E n \in Numbers : Deallocate(n)
    \/ \E p \in ValidRange : Export(p)
    \/ \E p \in ValidRange : Unexport(p)
    \/ \E p \in ValidRange, x \in BoolVals : SetExported(p, x)
    \/ \E p \in ValidRange, i \in InitVals, v \in InvVals :
           ConfigureAsOutput(p, i, v)
    \/ \E p \in ValidRange, r \in CbVals, f \in CbVals :
           ConfigureAsInput(p, r, f)
    \/ \E p \in ValidRange : GetValue(p)
    \/ \E p \in ValidRange, x \in PyVals : SetValue(p, x)
    \/ \E p \in ValidRange, x \in {"True", "False"} : WriteThenRead(p, x)
    \/ \E p \in ValidRange : GetInverted(p)
    \/ \E p \in ValidRange, x \in BoolVals : SetInverted(p, x)
    \/ \E p \in ValidRange : LineChange(p)

NextApi == PinCall

\* the calls an application makes on its pins, and nothing else
SpecApi == Init /\ [][NextApi]_vars

\* the calls that touch a pin's registration or its value handle
MonitorCall ==
    \/ \E n \in ValidRange : AllocateOne(n)
    \/ \E n \in ValidRange : Deallocate(n)
    \/ \E p \in ValidRange : Unexport(p)
    \/ \E p \in ValidRange, i \in {"False", "True"} :
           ConfigureAsOutput(p, "None", i)
    \/ \E p \in ValidRange : ConfigureAsInput(p, "cb", "None")
    \/ \E p \in ValidRange : GetValue(p)
    \/ \E p \in ValidRange, l \in Threads \cup {NoLoop} : SetEventLoop(p, l)
    \/ \E p \in ValidRange : LineChange(p)
    \/ \E p \in ValidRange, r \in {"None", "cb"}, f \in {"None", "cb"} :
           Monitor(p, r, f)

Next ==
    \/ MonitorCall
    \/ Dispatch
    \/ \E l \in Threads : PollReturns(l)
    \/ \E l \in Threads : Forward(l)

Spec == Init /\ [][Next]_vars

NextLoop ==
    \/ \E n \in ValidRange : AllocateOne(n)
    \/ \E n \in ValidRange : Deallocate(n)
    \/ \E p \in ValidRange : Monitor(p, "cb", "cb")
    \/ Dispatch
    \/ Shutdown
    \/ \E l \in Threads : PollReturns(l)
    \/ \E l \in Threads : PollInterrupted(l)
    \/ \E l \in Threads : PollFailed(l)
    \/ \E l \in Threads : Forward(l)
    \/ \E l \in Threads : LoopExit(l)

\* the background loop, with the calls that fill and empty its wait set
SpecLoop == Init /\ [][NextLoop]_vars

\* the background loop with its thread scheduled: a thread that can take
\* its next step does take it (the wait itself ends within its timeout)
SpecLoopFair ==
    /\ Init /\ [][NextLoop]_vars
    /\ \A l \in Threads : WF_vars(Forward(l)) /\ WF_vars(LoopExit(l))

\* two pins at a time on one loop
Pair == {1, 2}

NextPair ==
    \/ \E n \in Pair : Allocate(n)
    \/ \E p \in Pair : Monitor(p, "cb", "cb")
    \/ Dispatch
    \/ \E l \in Threads : PollReturns(l)
    \/ \E l \in Threads : PollInterrupted(l)
    \/ \E l \in Threads : Forward(l)

\* two monitored pins whose events share batches
SpecPair == Init /\ [][NextPair]_vars

\* the calls that make, move and remove a pin's registration, without the
\* background thread
NextReg ==
    \/ \E n \in ValidRange : AllocateOne(n)
    \/ \E n \in ValidRange : Deallocate(n)
    \/ \E p \in ValidRange, l \in Loops \cup {NoLoop} : SetEventLoop(p, l)
    \/ \E p \in ValidRange, r \in {"None", "cb"}, f \in {"None", "cb"} :
           Monitor(p, r, f)
    \/ \E p \in ValidRange, r \in CbVals, f \in CbVals :
           ConfigureAsInput(p, r, f)
    \/ \E p \in ValidRange : ConfigureAsOutput(p, "None", "None")
    \/ \E p \in ValidRange : GetValue(p)
    \/ \E p \in ValidRange : Unexport(p)

SpecReg == Init /\ [][NextReg]_vars

\* -------------------------------------------------------- properties
Idx == 1 .. Len(trace)
IsCallback(e) == e.ev \in {"cbRising", "cbFalling"}
Registrations(p) == UNION {{e \in table[l] : e.pin = p} : l \in Loops}
\* the value of the pin at the instant of the step e
ValueAt(e) == PyBool(Xor(e.level, Bit(active_low[e.pin])) = 1)

\* C1: when configureAsInput returns without an exception and was given at
\* least one callback, the pin holds exactly one registration, and
\* __monitoring carries the callbacks given.
C1_RegisteredAfterConfigureAsInput ==
    (/\ last.op = "configureAsInput"
     /\ last.exc = "none"
     /\ (last.a # "None" \/ last.b # "None"))
    => /\ Cardinality(Registrations(last.pin)) = 1
       /\ monitoring[last.pin] # NoMon
       /\ monitoring[last.pin].cbRising = last.a
       /\ monitoring[last.pin].cbFalling = last.b

\* under the calls of an application no pin is ever registered
NeverRegistered ==
    \A p \in ValidRange : monitoring[p] = NoMon /\ Registrations(p) = {}

Delivered(b) ==
    {k \in 1 .. Len(b) :
        /\ b[k].mask \cap Wanted # {}
        /\ \E p \in ValidRange : allocated[p] /\ valueFile[p] = b[k].fd}

C4_ForwardedOncePerBatch ==
    [][\A l \in Loops :
          (tpc[l] = "if" /\ tpc'[l] # "if") =>
              ((queue' # queue) <=> (lastWait[l] = "batch"))]_vars

\* C5: once a wait has failed other than by EINTR, the reactor has been
\* told to stop, and the loop makes no wait call and forwards no batch.
C5_NothingAfterFailure ==
    [][\A l \in Loops :
          /\ failed'[l] => stopCalled'
          /\ failed[l] =>
                /\ ~(tpc[l] = "while" /\ tpc'[l] = "if")
                /\ ~(tpc[l] = "if" /\ queue' # queue)]_vars

\* C6: configureAsOutput leaves the pin unregistered; the removal of its
\* registration is the first thing it does, before active_low or direction
\* is written; and no callback is ever invoked for a pin that is not
\* registered at that instant, whatever was handed to the reactor before.
C6_OutputUnregistersFirst ==
    /\ last.op = "configureAsOutput" =>
        /\ monitoring[last.pin] = NoMon
        /\ Registrations(last.pin) = {}
        /\ \A i \in Idx :
            /\ trace[i].ev = "remove" => i = 1
            /\ trace[i].ev \in {"write_active_low", "write_direction"}
                   => ~trace[i].reg
    /\ (\A i \in Idx : IsCallback(trace[i]) => trace[i].reg)

\* configureAsOutput ran on a registered pin while an event of it was
\* waiting on the reactor: the removal came first, then the two writes
C6_Witness ==
    /\ last.op = "configureAsOutput"
    /\ Len(trace) = 3
    /\ trace[1].ev = "remove" /\ trace[1].reg
    /\ trace[2].ev = "write_active_low"
    /\ trace[3].ev = "write_direction"
    /\ queue # << >>
    /\ Head(queue).events[1].fd = valueFile[last.pin]

\* C7: a pin is registered if and only if its direction is input and a
\* callback is set for it: a registered pin is an exported input, and an
\* input for which configureAsInput has just set a callback is registered.
C7_RegisteredIffInputWithCallback ==
    \A p \in ValidRange :
        allocated[p] =>
            /\ monitoring[p] # NoMon =>
                   (exported[p] /\ direction[p] = "in")
            /\ (/\ last.op = "configureAsInput"
                /\ last.pin = p
                /\ last.exc = "none"
                /\ (last.a # "None" \/ last.b # "None")
                /\ direction[p] = "in")
               => monitoring[p] # NoMon

\* C8: every descriptor in a wait set is the open value handle of its pin;
\* a registration is added only with the handle open, and the handle is
\* closed only with the pin unregistered.
C8_RegisteredHandleOpen ==
    /\ \A l \in Loops : \A e \in table[l] :
           e.fd # NoFile /\ valueFile[e.pin] = e.fd
    /\ \A p \in ValidRange :
           monitoring[p] # NoMon =>
               /\ valueFile[p] # NoFile
               /\ monitoring[p].token = valueFile[p]
    /\ \A i \in Idx :
           /\ trace[i].ev = "add" => trace[i].open
           /\ trace[i].ev = "close" => ~trace[i].reg

\* unexport ran on a registered pin: the removal, then the close, then the
\* write to the unexport file
C8_Witness ==
    /\ last.op = "unexport"
    /\ Len(trace) = 3
    /\ trace[1].ev = "remove" /\ trace[1].reg /\ trace[1].open
    /\ trace[2].ev = "close" /\ ~trace[2].reg /\ trace[2].open
    /\ trace[3].ev = "write_unexport"

\* the edge mode the callbacks ask for
C9_Mode(cbRising, cbFalling) ==
    CASE cbRising = "None" /\ cbFalling = "None" -> "none"
      [] cbRising # "None" /\ cbFalling = "None" -> "rising"
      [] cbRising = "None" /\ cbFalling # "None" -> "falling"
      [] OTHER -> "both"

\* C9: for callbacks that are None or callable, what configureAsInput
\* writes to the edge attribute is the mode its callbacks ask for, and a
\* call that returns on a line with an edge attribute has written it once.
C9_EdgeWritten ==
    (/\ last.op = "configureAsInput"
     /\ last.a \in {"None", "cb"}
     /\ last.b \in {"None", "cb"})
    => LET writes == {i \in Idx : trace[i].ev = "write_edge"}
       IN  /\ \A i \in writes :
                /\ trace[i].arg = C9_Mode(last.a, last.b)
                /\ trace[i].pin = last.pin
                /\ edge[last.pin] = C9_Mode(last.a, last.b)
           /\ (last.exc = "none" /\ last.pin \in WithEdge)
                  => Cardinality(writes) = 1
           /\ last.pin \notin WithEdge => writes = {}

\* configureAsInput with a falling callback only has written "falling"
C9_Witness ==
    /\ last.op = "configureAsInput"
    /\ last.a = "None" /\ last.b = "cb"
    /\ last.exc = "none"
    /\ \E i \in Idx : trace[i].ev = "write_edge" /\ trace[i].arg = "falling"
    /\ edge[last.pin] = "falling"

Ended(l) == tpc[l] \in {"exited", "crashed"}

\* C11: once _running is down the background thread ends, whether or not
\* any pin becomes ready; a thread that has ended never waits again; and
\* after the shutdown no pin is allocated, registered, open or exported.
C11_ShutdownEnds ==
    /\ \A l \in Threads : (~running[l]) ~> Ended(l)
    /\ [][\A l \in Loops : Ended(l) => tpc'[l] = tpc[l]]_vars
    /\ [](reactor = "stopped" =>
            /\ \A l \in Loops : ~running[l] /\ table[l] = {}
            /\ \A p \in ValidRange :
                /\ ~allocated[p]
                /\ monitoring[p] = NoMon
                /\ valueFile[p] = NoFile
                /\ ~exported[p])

\* the shutdown found a registered pin, took it down in order, and the
\* thread has left its loop with the wait set empty
C11_Witness ==
    /\ reactor = "stopped"
    /\ last.op = "stop" /\ last.exc = "none"
    /\ Len(trace) = 3
    /\ trace[1].ev = "remove" /\ trace[1].reg
    /\ trace[2].ev = "close"
    /\ trace[3].ev = "write_unexport"
    /\ \A l \in Threads : tpc[l] = "exited" /\ lastWait[l] = "timeout"

\* not b, for a Python bool b
PyNot(b) == IF b = "True" THEN "False" ELSE "True"

\* C12: on an output pin, value = b followed by a read of value returns b
\* when the pin is not inverted and not b when it is.
C12_WriteThenRead ==
    (/\ last.op = "value=;value"
     /\ exported[last.pin]
     /\ direction[last.pin] = "out")
    => /\ last.exc = "none"
       /\ last.ret = IF active_low[last.pin] = "0"
                     THEN last.a ELSE PyNot(last.a)

\* what the program does: the read returns b, inverted or not
C12_ReadsBackWhatWasWritten ==
    (/\ last.op = "value=;value"
     /\ exported[last.pin]
     /\ direction[last.pin] = "out")
    => /\ last.exc = "none"
       /\ last.ret = last.a
       /\ level[last.pin] = Xor(Bit(active_low[last.pin]),
                                IF last.a = "True" THEN 1 ELSE 0)

\* C13: value = x with x not a bool fails with the error for an invalid
\* value (TypeError), and nothing is written to the value attribute.
C13_NonBooleanValueRefused ==
    (/\ last.op = "value="
     /\ ~IsBool(last.a)
     /\ exported[last.pin])
    => /\ last.exc = "TypeError"
       /\ \A i \in Idx : trace[i].ev # "write_value"

\* C14: export() on a pin whose line is exported is a no-op: nothing is
\* written to the export file, nothing is raised and nothing changes.
C14_ExportIdempotent ==
    [][\A p \in ValidRange :
          (exported[p] /\ Export(p)) =>
              /\ last'.exc = "none"
              /\ trace' = << >>
              /\ UNCHANGED pinVars]_vars

\* where the event of the pin p stands in the batch being delivered
EvIdx(p) ==
    CHOOSE k \in 1 .. Len(last.batch) : last.batch[k].fd = valueFile[p]

\* C15: callbacks are invoked only by the reactor's delivery of a batch,
\* never by a step of the background thread, which only appends batches
\* to the reactor's queue; the reactor delivers one batch at a time, the
\* oldest first, and within a batch in the order of its events.
C15_CallbacksOnReactorInOrder ==
    /\ [](\A i \in Idx :
            IsCallback(trace[i]) =>
                /\ last.op = "poll_queue_event"
                /\ \A j \in Idx :
                     (j < i /\ trace[j].ev = "handler")
                         => EvIdx(trace[j].pin) <= EvIdx(trace[i].pin))
    /\ [][/\ (\E l \in Loops : tpc'[l] # tpc[l] \/ events'[l] # events[l])
             => /\ UNCHANGED << pinVars, last, trace >>
                /\ \/ queue' = queue
                   \/ \E l \in Loops :
                        queue' = Append(queue,
                                        [loop |-> l, events |-> events[l]])
          /\ (trace' # trace /\ \E i \in DOMAIN trace' :
                                   IsCallback(trace'[i]))
             => /\ queue # << >>
                /\ queue' = Tail(queue)
                /\ last'.batch = Head(queue).events
                /\ UNCHANGED threadVars]_vars

\* one batch brought the events of two pins: a callback of each was
\* invoked, in the order of the batch, while another batch was waiting
C15_Witness ==
    /\ last.op = "poll_queue_event"
    /\ Len(last.batch) = 2
    /\ \E i, j \in Idx :
        /\ i < j
        /\ IsCallback(trace[i]) /\ IsCallback(trace[j])
        /\ trace[i].pin # trace[j].pin
    /\ queue # << >>
    /\ Head(queue).events # last.batch

\* C16: unexport unregisters the pin if it is registered, then closes the
\* value handle if it is open, then writes the unexport file: the write
\* is the last step, and never made with the handle open or the pin
\* registered.
C16_UnexportOrder ==
    /\ \A i \in Idx :
           trace[i].ev = "write_unexport" =>
               ~trace[i].reg /\ ~trace[i].open
    /\ (last.op = "unexport" /\ trace # << >>) =>
        /\ trace[Len(trace)].ev = "write_unexport"
        /\ \A i \in Idx : trace[i].ev = "write_unexport" => i = Len(trace)
        /\ trace[1].reg => trace[1].ev = "remove"
        /\ trace[1].open => \E i \in Idx : trace[i].ev = "close"
        /\ \A i, j \in Idx :
            (trace[i].ev = "remove" /\ trace[j].ev = "close") => i < j

\* unexport of a registered pin went through its three steps, while an
\* event of the pin was still waiting on the reactor
C16_Witness ==
    /\ last.op = "unexport" /\ last.exc = "none"
    /\ ~exported[last.pin]
    /\ Len(trace) = 3
    /\ << trace[1].ev, trace[2].ev, trace[3].ev >>
           = << "remove", "close", "write_unexport" >>
    /\ trace[1].reg /\ trace[2].open
    /\ queue # << >>

\* C17: in configureAsOutput the active_low attribute is written before
\* the direction attribute: a direction write made with a bool given for
\* inverted comes after the write of that inversion, never before it.
C17_InversionBeforeDirection ==
    last.op = "configureAsOutput" =>
        LET inv == {i \in Idx : trace[i].ev = "write_active_low"}
            dir == {i \in Idx : trace[i].ev = "write_direction"}
        IN  /\ \A i \in inv, j \in dir : i < j
            /\ (dir # {} /\ IsBool(last.b)) => inv # {}
            /\ Cardinality(inv) <= 1 /\ Cardinality(dir) <= 1

\* configureAsOutput(True, True) wrote "1" to active_low and then "high"
\* to direction
C17_Witness ==
    /\ last.op = "configureAsOutput"
    /\ last.a = "True" /\ last.b = "True" /\ last.exc = "none"
    /\ Len(trace) = 2
    /\ trace[1].ev = "write_active_low" /\ trace[1].arg = "1"
    /\ trace[2].ev = "write_direction" /\ trace[2].arg = "high"
    /\ trace[2].level = 0 /\ level[last.pin] = 1

\* C18: on an exported line, configureAsInput fails with the error for a
\* line without edge interrupts exactly when the line has no edge attribute
\* and the mode asked for is not "none"; without an edge attribute and
\* without callbacks it succeeds, the direction is "in" and the pin is not
\* registered.
C18_UnsupportedEdge ==
    (/\ last.op = "configureAsInput"
     /\ last.a \in {"None", "cb"} /\ last.b \in {"None", "cb"}
     /\ exported[last.pin])
    => /\ (last.exc = "NoCallbacks")
              <=> (last.pin \notin WithEdge
                      /\ C9_Mode(last.a, last.b) # "none")
       /\ (last.pin \notin WithEdge /\ last.a = "None" /\ last.b = "None")
              => /\ last.exc = "none"
                 /\ direction[last.pin] = "in"
                 /\ monitoring[last.pin] = NoMon
                 /\ Registrations(last.pin) = {}

\* the same with the second half kept to lines that have a direction
\* attribute
C18_OnLinesWithDirection ==
    (/\ last.op = "configureAsInput"
     /\ last.a \in {"None", "cb"} /\ last.b \in {"None", "cb"}
     /\ exported[last.pin])
    => /\ (last.exc = "NoCallbacks")
              <=> (last.pin \notin WithEdge
                      /\ C9_Mode(last.a, last.b) # "none")
       /\ (last.pin \notin WithEdge /\ last.a = "None" /\ last.b = "None")
              => IF last.pin \in WithDirection
                 THEN /\ last.exc = "none"
                      /\ direction[last.pin] = "in"
                      /\ monitoring[last.pin] = NoMon
                      /\ Registrations(last.pin) = {}
                 ELSE last.exc = "FixedDirection"

\* C19: configureAsInput with a callback that is neither None nor callable
\* raises TypeError and has touched nothing: the pin's registration and
\* callbacks, its value handle and the kernel's attributes are as before.
C19_BadCallbackTouchesNothing ==
    [][\A p \in ValidRange, r \in CbVals, f \in CbVals :
          ((r = "str" \/ f = "str") /\ ConfigureAsInput(p, r, f)) =>
              /\ last'.exc = "TypeError"
              /\ trace' = << >>
              /\ UNCHANGED pinVars]_vars

\* configureAsInput(cb, "str") was refused on a pin that is registered
C19_Witness ==
    /\ last.op = "configureAsInput"
    /\ last.a = "cb" /\ last.b = "str"
    /\ last.exc = "TypeError"
    /\ monitoring[last.pin] # NoMon
    /\ valueFile[last.pin] # NoFile
    /\ Registrations(last.pin) # {}

\* the loops whose wait set holds an entry of the pin p
LoopsOf(p) == {l \in Loops : \E e \in table[l] : e.pin = p}

\* C20: a pin has one registration at most; it has one exactly when
\* __monitoring is set, and then in the loop and under the token stored
\* there; a removal goes to the loop that holds the registration, whatever
\* the pin's eventLoop attribute names by then, so no entry stays behind.
C20_OneRegistrationRemovedWhereMade ==
    /\ [](\A p \in ValidRange :
            /\ Cardinality(LoopsOf(p)) <= 1
            /\ \A l \in Loops :
                 Cardinality({e \in table[l] : e.pin = p}) <= 1
            /\ monitoring[p] = NoMon => LoopsOf(p) = {}
            /\ monitoring[p] # NoMon =>
                 /\ LoopsOf(p) = {monitoring[p].eventLoop}
                 /\ [fd |-> monitoring[p].token, pin |-> p]
                        \in table[monitoring[p].eventLoop])
    /\ [][\A i \in DOMAIN trace' :
            (/\ trace'[i].ev = "remove"
             /\ \A j \in 1 .. (i - 1) : trace'[j].ev # "add")
            => LET p == trace'[i].pin
               IN  /\ monitoring[p] # NoMon
                   /\ trace'[i].arg = ToString(monitoring[p].eventLoop)]_vars

\* configureAsOutput took the registration out of loop 1 when the pin's
\* eventLoop attribute had been set to loop 2
C20_Witness ==
    /\ last.op = "configureAsOutput"
    /\ trace # << >>
    /\ trace[1].ev = "remove" /\ trace[1].arg = "1" /\ trace[1].reg
    /\ eventLoop[last.pin] = 2
    /\ monitoring[last.pin] = NoMon
    /\ table[1] = {} /\ table[2] = {}

====
